---- MODULE Spec2Model ----
(***************************************************************************)
(* Model of stonesoup.predictor.information.InfoFilterPredictor (the       *)
(* information-filter prediction step, memoised by functools.lru_cache)    *)
(* and of stonesoup.types.particle (Particle, MultiModelParticle).         *)
(*                                                                         *)
(* Numbers: numpy computes in IEEE doubles; the model computes the same    *)
(* expressions in exact rational arithmetic (a rational is <<num, den>>,   *)
(* den > 0, in lowest terms).  A matrix is a sequence of rows; a state     *)
(* vector is an n-by-1 matrix, as stonesoup's StateVector is.              *)
(* Python's None is <<>> and a present value x is <<x>>.                   *)
(***************************************************************************)
EXTENDS Integers, Sequences, FiniteSets, TLC

\* ------------------------------------------------------------------------
\* Bounds of the model
\* ------------------------------------------------------------------------
MaxTime == 1

MaxCalls == 2

MaxStamp == 129

MaxParticles == 4

\* functools.lru_cache() is applied with its default maxsize
maxsize == 128

None == <<>>

Some(x) == <<x>>

\* ------------------------------------------------------------------------
\* Exact rational arithmetic
\* ------------------------------------------------------------------------
Abs(i) == IF i < 0 THEN -i ELSE i

RECURSIVE Gcd(_, _)
Gcd(a, b) == IF b = 0 THEN a ELSE Gcd(b, a % b)

Norm(n, d) ==
    LET s == IF d < 0 THEN -1 ELSE 1
        g == Gcd(Abs(n), Abs(d))
    IN  <<(s * n) \div g, (s * d) \div g>>

R(i) == <<i, 1>>

RAdd(x, y) == Norm(x[1] * y[2] + y[1] * x[2], x[2] * y[2])

RSub(x, y) == Norm(x[1] * y[2] - y[1] * x[2], x[2] * y[2])

RMul(x, y) == Norm(x[1] * y[1], x[2] * y[2])

RDiv(x, y) == Norm(x[1] * y[2], x[2] * y[1])

RECURSIVE RSum(_, _)
RSum(f, n) == IF n = 0 THEN R(0) ELSE RAdd(RSum(f, n - 1), f[n])

\* ------------------------------------------------------------------------
\* numpy arrays: shapes, @, +, -, .T, identity, ones, zeros, linalg.inv
\* ------------------------------------------------------------------------
Rows(A) == Len(A)

Cols(A) == IF Len(A) = 0 THEN 0 ELSE Len(A[1])

\* the array with entries f[1], ..., f[n], each computed once
RECURSIVE Arr(_, _)
Arr(f, n) == IF n = 0 THEN <<>> ELSE Append(Arr(f, n - 1), f[n])

IntMat(A) == Arr([i \in 1..Len(A) |-> Arr([j \in 1..Len(A[i]) |-> R(A[i][j])], Len(A[i]))],
                 Len(A))

ColVec(v) == Arr([i \in 1..Len(v) |-> <<R(v[i])>>], Len(v))

np_zeros(r, c) == Arr([i \in 1..r |-> Arr([j \in 1..c |-> R(0)], c)], r)

np_ones(r, c) == Arr([i \in 1..r |-> Arr([j \in 1..c |-> R(1)], c)], r)

np_identity(n) ==
    Arr([i \in 1..n |-> Arr([j \in 1..n |-> IF i = j THEN R(1) ELSE R(0)], n)], n)

T(A) == Arr([j \in 1..Cols(A) |-> Arr([i \in 1..Rows(A) |-> A[i][j]], Rows(A))], Cols(A))

\* a @ b is defined when the inner dimensions agree; numpy raises ValueError otherwise
CanMatMul(A, B) == Cols(A) = Rows(B)

MatMul(A, B) ==
    Arr([i \in 1..Rows(A) |-> Arr([j \in 1..Cols(B) |->
        RSum([k \in 1..Cols(A) |-> RMul(A[i][k], B[k][j])], Cols(A))], Cols(B))], Rows(A))

MatAdd(A, B) ==
    Arr([i \in 1..Rows(A) |-> Arr([j \in 1..Cols(A) |-> RAdd(A[i][j], B[i][j])], Cols(A))],
        Rows(A))

MatSub(A, B) ==
    Arr([i \in 1..Rows(A) |-> Arr([j \in 1..Cols(A) |-> RSub(A[i][j], B[i][j])], Cols(A))],
        Rows(A))

Scale(c, A) ==
    Arr([i \in 1..Rows(A) |-> Arr([j \in 1..Cols(A) |-> RMul(c, A[i][j])], Cols(A))],
        Rows(A))

Drop(s, k) == Arr([i \in 1..(Len(s) - 1) |-> IF i < k THEN s[i] ELSE s[i + 1]], Len(s) - 1)

Minor(A, r, c) == Arr([i \in 1..(Rows(A) - 1) |-> Drop(Drop(A, r)[i], c)], Rows(A) - 1)

RECURSIVE Det(_)
Det(A) ==
    IF Rows(A) = 0 THEN R(1)
    ELSE RSum([j \in 1..Rows(A) |->
                 RMul(IF j % 2 = 1 THEN A[1][j] ELSE RSub(R(0), A[1][j]),
                      Det(Minor(A, 1, j)))], Rows(A))

Singular(A) == Det(A) = R(0)

\* the inverse of a non-singular square matrix (adjugate over determinant)
Inverse(A) ==
    Arr([i \in 1..Rows(A) |-> Arr([j \in 1..Rows(A) |->
            RDiv(IF (i + j) % 2 = 0 THEN Det(Minor(A, j, i))
                 ELSE RSub(R(0), Det(Minor(A, j, i))), Det(A))], Rows(A))], Rows(A))

\* ------------------------------------------------------------------------
\* The collaborators: transition models, control models, prior estimates
\* ------------------------------------------------------------------------
\* A linear Gaussian transition model: matrix(time_interval) = F0 + dt * F1,
\* covar(time_interval) = Q; an undefined interval is read as duration 0.
Duration(interval) == IF interval = None THEN 0 ELSE interval[1]

tm_matrix(tm, interval) == MatAdd(tm.F0, Scale(R(Duration(interval)), tm.F1))

tm_covar(tm, interval) == tm.Q

\* TransitionModel.ndim is its ndim_state
tm_ndim(tm) == tm.ndim_state

tmScalar ==
    [ndim_state |-> 1, F0 |-> IntMat(<<<<2>>>>), F1 |-> IntMat(<<<<0>>>>),
     Q |-> IntMat(<<<<1>>>>)]

\* constant velocity: F = [[1, dt], [0, 1]], Q = [[0.1, 0], [0, 0.1]]
tmCV ==
    [ndim_state |-> 2, F0 |-> np_identity(2), F1 |-> IntMat(<<<<0, 1>>, <<0, 0>>>>),
     Q |-> Scale(<<1, 10>>, np_identity(2))]

\* a transition matrix with a zero row
tmSingF ==
    [ndim_state |-> 2, F0 |-> IntMat(<<<<1, 1>>, <<0, 0>>>>), F1 |-> np_zeros(2, 2),
     Q |-> np_identity(2)]

\* zero process noise
tmSingQ ==
    [ndim_state |-> 2, F0 |-> np_identity(2), F1 |-> np_zeros(2, 2),
     Q |-> np_zeros(2, 2)]

TransitionModels == {tmScalar, tmCV, tmSingF, tmSingQ}

\* LinearControlModel(ndim_state, mapping, control_vector, control_matrix, control_noise)
LinearControlModel(ndim_state, mapping, control_vector, control_matrix, control_noise) ==
    [ndim_state |-> ndim_state, mapping |-> mapping, control_vector |-> control_vector,
     control_matrix |-> control_matrix, control_noise |-> control_noise]

\* LinearControlModel.matrix() and .control_input()
cm_matrix(cm) == cm.control_matrix

cm_control_input(cm) == MatMul(cm.control_matrix, cm.control_vector)

\* an explicit control model that does push the state
cmPush(n) == LinearControlModel(n, <<>>, np_ones(n, 1), np_identity(n), np_identity(n))

\* explicit control models whose control input is the zero vector
ZeroEffectModels(n) ==
    { LinearControlModel(n, <<>>, np_zeros(n, 1), np_zeros(n, n), np_zeros(n, n)),
      LinearControlModel(n, <<>>, np_zeros(n, 1), np_identity(n), np_identity(n)),
      LinearControlModel(n, <<>>, np_ones(n, 1), np_zeros(n, n), np_zeros(n, n)) }

InformationKinds == {"InformationState", "InformationStatePrediction", "InformationStateUpdate"}

\* The caller's estimate objects.  Object p keeps its arrays in the buffers
\* <<p, "state_vector">> and <<p, "matrix">>.
Estimate(oid, kind, vec, mat, ts) ==
    [oid |-> oid, kind |-> kind, state_vector |-> vec,
     info_matrix |-> IF kind \in InformationKinds THEN Some(mat) ELSE None,
     covar |-> IF kind \in InformationKinds THEN None ELSE Some(mat),
     timestamp |-> ts,
     storage |-> {<<oid, "state_vector">>, <<oid, "matrix">>}]

PriorPool ==
    << Estimate(1, "InformationState", ColVec(<<1, 2>>), np_identity(2), Some(0)),
       Estimate(2, "GaussianState", ColVec(<<1, 1>>), IntMat(<<<<2, 0>>, <<0, 1>>>>), Some(0)),
       Estimate(3, "InformationStatePrediction", ColVec(<<3>>), IntMat(<<<<1>>>>), None),
       Estimate(4, "InformationStateUpdate", ColVec(<<1>>), IntMat(<<<<-4>>>>), Some(0)),
       Estimate(5, "InformationState", ColVec(<<1, 1, 1>>), np_identity(3), Some(0)) >>

PriorIds == DOMAIN PriorPool

Timestamps == {None} \cup {Some(t) : t \in 1..MaxTime}

\* ------------------------------------------------------------------------
\* InfoFilterPredictor
\* ------------------------------------------------------------------------
noise_transition_matrix(pred) == np_identity(pred.transition_model.ndim_state)

transition_matrix(pred, interval) == tm_matrix(pred.transition_model, interval)

control_matrix(pred) == cm_matrix(pred.control_model)

predict_over_interval(prior, timestamp) ==
    IF timestamp = None \/ prior.timestamp = None
    THEN None
    ELSE Some(timestamp[1] - prior.timestamp[1])

IsInformationForm(prior) ==
    \/ prior.kind = "InformationStateUpdate"
    \/ prior.kind = "InformationStatePrediction"
    \/ prior.kind = "InformationState"

\* variant: a covariance-form prior is converted to information form first
second_moment_inverted(prior) ==
    IF IsInformationForm(prior) THEN prior.info_matrix[1] ELSE Inverse(prior.covar[1])

\* Y = prior.info_matrix for the information kinds, prior.covar otherwise
second_moment(prior) ==
    IF IsInformationForm(prior) THEN prior.info_matrix[1] ELSE prior.covar[1]

Raise(e) == [raised |-> Some(e), value |-> None]

Return(v) == [raised |-> None, value |-> Some(v)]

\* variant: a pseudo-inverse fallback (the zero matrix) for a singular argument
inv_pinv(A) == IF Singular(A) THEN Return(np_zeros(Rows(A), Rows(A))) ELSE Return(Inverse(A))

\* numpy.linalg.inv: LinAlgError("Singular matrix") or the inverse
inv(A) == IF Singular(A) THEN Raise("LinAlgError") ELSE Return(Inverse(A))

\* a @ b: ValueError on mismatched inner dimensions, or the product
matmul(A, B) == IF CanMatMul(A, B) THEN Return(MatMul(A, B)) ELSE Raise("ValueError")

\* self.transition_model.matrix(**kwargs) @ prior.state_vector
transition_function(pred, prior, interval) ==
    matmul(tm_matrix(pred.transition_model, interval), prior.state_vector)

\* np.ones((ndims, ndims)) - Omega @ G.transpose()
info_vector_factor(ndims, Omega, G) == MatSub(np_ones(ndims, ndims), MatMul(Omega, T(G)))

\* predict from "ndims = self.transition_model.ndim" on: the information-filter
\* recursion, one definition per group of statements, each handing the values
\* computed so far to the next.  The result is the exception raised, or the
\* (y_pred, Y_pred, timestamp) handed to InformationStatePrediction.
\*
\* Y_pred = M - Omega @ Sigma @ Omega.T
\* y_pred = (np.ones((ndims, ndims)) - Omega @ G.transpose())
\*              @ inv(F.transpose()) @ y + Y @ self.control_model.control_input()
with_Omega(pred, prior, timestamp, invFT, M, Sigma, Omega) ==
    Return([info_vector |->
                MatAdd(MatMul(MatMul(info_vector_factor(tm_ndim(pred.transition_model), Omega,
                                                        noise_transition_matrix(pred)),
                                     invFT),
                              prior.state_vector),
                       MatMul(second_moment(prior), cm_control_input(pred.control_model))),
            info_matrix |-> MatSub(M, MatMul(MatMul(Omega, Sigma), T(Omega))),
            timestamp |-> timestamp])

\* Omega = M @ G @ inv(Sigma)
with_inverse_Sigma(pred, prior, timestamp, invFT, M, Sigma, invSigma) ==
    IF invSigma.raised # None THEN invSigma
    ELSE with_Omega(pred, prior, timestamp, invFT, M, Sigma,
                    MatMul(MatMul(M, noise_transition_matrix(pred)), invSigma.value[1]))

with_Sigma(pred, prior, timestamp, invFT, M, Sigma) ==
    with_inverse_Sigma(pred, prior, timestamp, invFT, M, Sigma, inv(Sigma))

\* Sigma = G @ M @ G + inv(transition_covar)
with_M(pred, prior, timestamp, invFT, M, invQ) ==
    IF invQ.raised # None THEN invQ
    ELSE with_Sigma(pred, prior, timestamp, invFT, M,
                    MatAdd(MatMul(MatMul(noise_transition_matrix(pred), M),
                                  noise_transition_matrix(pred)),
                           invQ.value[1]))

\* M = inv(transition_matrix.T) @ Y @ inv(transition_matrix)
with_inverse_F(pred, prior, timestamp, invFT, invF) ==
    IF invFT.raised # None THEN invFT
    ELSE IF invF.raised # None THEN invF
    ELSE with_M(pred, prior, timestamp, invFT.value[1],
                MatMul(MatMul(invFT.value[1], second_moment(prior)), invF.value[1]),
                inv(tm_covar(pred.transition_model, predict_over_interval(prior, timestamp))))

predict_recursion(pred, prior, timestamp) ==
    with_inverse_F(pred, prior, timestamp,
                   inv(T(transition_matrix(pred, predict_over_interval(prior, timestamp)))),
                   inv(transition_matrix(pred, predict_over_interval(prior, timestamp))))

\* variant: no dimension guard, the prior's arrays are cut or zero-padded to
\* the model's dimension
Conform(A, r, c) ==
    Arr([i \in 1..r |-> Arr([j \in 1..c |->
            IF i <= Rows(A) /\ j <= Cols(A) THEN A[i][j] ELSE R(0)], c)], r)

predict_body_reshaped(pred, prior, timestamp) ==
    LET n == pred.transition_model.ndim_state
    IN  predict_recursion(pred,
            [prior EXCEPT !.state_vector = Conform(@, n, 1),
                          !.info_matrix = IF @ = None THEN None ELSE Some(Conform(@[1], n, n)),
                          !.covar = IF @ = None THEN None ELSE Some(Conform(@[1], n, n))],
            timestamp)

\* The body of predict.  x_pred and p_pred are computed first (and then not
\* used); their products raise when the prior does not fit the model.
predict_body(pred, prior, timestamp) ==
    IF transition_function(pred, prior, predict_over_interval(prior, timestamp)).raised # None
    THEN transition_function(pred, prior, predict_over_interval(prior, timestamp))
    ELSE IF matmul(transition_matrix(pred, predict_over_interval(prior, timestamp)),
                   second_moment(prior)).raised # None
    THEN matmul(transition_matrix(pred, predict_over_interval(prior, timestamp)),
                second_moment(prior))
    ELSE predict_recursion(pred, prior, timestamp)

\* variant: y_pred is accumulated in place in the prior's state vector
result_storage_inplace(oid, prior) == {<<prior.oid, "state_vector">>, <<oid, "matrix">>}

\* InformationStatePrediction(y_pred, Y_pred, timestamp=timestamp): a new object
\* whose arrays are the freshly computed y_pred and Y_pred
result_storage(oid, prior) == {<<oid, "state_vector">>, <<oid, "matrix">>}

InformationStatePrediction(oid, prior, v) ==
    [oid |-> oid, kind |-> "InformationStatePrediction", state_vector |-> v.info_vector,
     info_matrix |-> Some(v.info_matrix), covar |-> None, timestamp |-> v.timestamp,
     storage |-> result_storage(oid, prior)]

\* Base.__init__ binds the declared properties: transition_model has no default
Base_init(tmArg, cmArg) ==
    IF tmArg = None THEN Raise("ConfigurationError")
    ELSE Return([transition_model |-> tmArg[1], control_model |-> cmArg])

\* variant: the control model inserted has a unit matrix and a unit vector
zero_effect_control_model_unit(ndims) ==
    LinearControlModel(ndims, <<>>, np_ones(ndims, 1), np_identity(ndims),
                       np_zeros(ndims, ndims))

\* the zero-effect control model __init__ inserts when none is given
zero_effect_control_model(ndims) ==
    LinearControlModel(ndims, <<>>, np_zeros(ndims, 1), np_zeros(ndims, ndims),
                       np_zeros(ndims, ndims))

\* variant: a missing transition model is replaced by a default one
InfoFilterPredictor_init_default(tmArg, cmArg) ==
    LET tm == IF tmArg = None THEN tmScalar ELSE tmArg[1]
    IN  IF cmArg = None
        THEN [raised |-> None,
              value |-> Some([transition_model |-> tm,
                              control_model |-> zero_effect_control_model(tm.ndim_state)]),
              synthesized |-> TRUE]
        ELSE [raised |-> None,
              value |-> Some([transition_model |-> tm, control_model |-> cmArg[1]]),
              synthesized |-> FALSE]

\* InfoFilterPredictor.__init__: the exception, or the predictor; synthesized
\* tells whether a LinearControlModel was created on the way
InfoFilterPredictor_init(tmArg, cmArg) ==
    LET base == Base_init(tmArg, cmArg)
    IN  IF base.raised # None
        THEN [raised |-> base.raised, value |-> None, synthesized |-> FALSE]
        ELSE LET self == base.value[1]
             IN  IF self.control_model = None
                 THEN [raised |-> None,
                       value |-> Some([self EXCEPT !.control_model =
                           zero_effect_control_model(self.transition_model.ndim_state)]),
                       synthesized |-> TRUE]
                 ELSE [raised |-> None,
                       value |-> Some([self EXCEPT !.control_model = self.control_model[1]]),
                       synthesized |-> FALSE]

\* ------------------------------------------------------------------------
\* functools.lru_cache around predict: one cache for the class, keyed by
\* (self, prior, timestamp); least recently used entry first
\* ------------------------------------------------------------------------
cache_key(pid, p, ts) == <<pid, p, ts>>

cache_find(c, key) ==
    IF \E i \in 1..Len(c) : c[i].key = key
    THEN CHOOSE i \in 1..Len(c) : c[i].key = key
    ELSE 0

cache_touch(c, i) == SubSeq(c, 1, i - 1) \o SubSeq(c, i + 1, Len(c)) \o <<c[i]>>

\* variant: nothing is ever stored
cache_store_never(c, key, result) == c

\* variant: the result is stored without looking whether the key is there by now
cache_store_blind(c, key, result) ==
    IF Len(c) >= maxsize THEN Append(Tail(c), [key |-> key, result |-> result])
    ELSE Append(c, [key |-> key, result |-> result])

cache_store(c, key, result) ==
    IF cache_find(c, key) > 0 THEN c
    ELSE IF Len(c) >= maxsize THEN Append(Tail(c), [key |-> key, result |-> result])
    ELSE Append(c, [key |-> key, result |-> result])

\* the wrapper lru_cache puts around predict, on the cache c with n the next
\* free object id: the cache and n afterwards, and what the call gives
lru_store(c, n, key, obj) ==
    [cache |-> cache_store(c, key, obj), nobj |-> n + 1, raised |-> None,
     result |-> Some(obj), hit |-> FALSE]

lru_miss(c, n, prior, key, out) ==
    IF out.raised # None
    THEN [cache |-> c, nobj |-> n, raised |-> out.raised, result |-> None, hit |-> FALSE]
    ELSE lru_store(c, n, key, InformationStatePrediction(n, prior, out.value[1]))

lru_hit(c, n, i) ==
    [cache |-> cache_touch(c, i), nobj |-> n, raised |-> None,
     result |-> Some(c[i].result), hit |-> TRUE]

lru_cache_wrapper(c, n, pred, prior, key, timestamp) ==
    IF cache_find(c, key) > 0 THEN lru_hit(c, n, cache_find(c, key))
    ELSE lru_miss(c, n, prior, key, predict_body(pred, prior, timestamp))

recency_touch(r, key) == Append(SelectSeq(r, LAMBDA k : k # key), key)

\* ------------------------------------------------------------------------
\* Particle and MultiModelParticle
\* ------------------------------------------------------------------------
\* state_vector is wrapped in a StateVector unless it is one (or None)
as_state_vector(sv) == IF sv # "None" /\ sv # "StateVector" THEN "StateVector" ELSE sv

\* variant: the parent is linked as it is
particle_init_keep(ps, cls, sv, parent) ==
    Append(ps, [cls |-> cls, state_vector |-> as_state_vector(sv), weight |-> 1,
                parent |-> parent])

\* Particle.__init__ and MultiModelParticle.__init__ on the particles ps:
\* a given parent loses its own parent, then the new particle is set up
particle_init(ps, cls, sv, parent) ==
    Append(IF parent # None THEN [ps EXCEPT ![parent[1]].parent = None] ELSE ps,
           [cls |-> cls, state_vector |-> as_state_vector(sv), weight |-> 1,
            parent |-> parent])

PredIds == {1, 2}

Threads == {1, 2}

VARIABLES predictors, priors, cache, nobj, nsynth, last, returned, recency,
          ncalls, now, threads, particles, created

vars == <<predictors, priors, cache, nobj, nsynth, last, returned, recency,
          ncalls, now, threads, particles, created>>

NoOp ==
    [op |-> "none", pid |-> 0, arg |-> None, key |-> None, raised |-> None,
     result |-> None, hit |-> FALSE, queried |-> FALSE]

IdleThread == [pc |-> "idle", args |-> None, raised |-> None, result |-> None, hit |-> FALSE]

Init ==
    /\ predictors = [pid \in PredIds |-> None]
    /\ priors = PriorPool
    /\ cache = <<>>
    /\ nobj = Len(PriorPool) + 1
    /\ nsynth = 0
    /\ last = NoOp
    /\ returned = <<>>
    /\ recency = <<>>
    /\ ncalls = 0
    /\ now = 0
    /\ threads = [t \in Threads |-> IdleThread]
    /\ particles = <<>>
    /\ created = None

\* predictor = InfoFilterPredictor(transition_model=tmArg, control_model=cmArg)
Construct(pid, tmArg, cmArg) ==
    /\ predictors[pid] = None
    /\ \E r \in {InfoFilterPredictor_init(tmArg, cmArg)} :
          /\ predictors' = [predictors EXCEPT ![pid] = r.value]
          /\ nsynth' = IF r.synthesized THEN nsynth + 1 ELSE nsynth
          /\ last' = [NoOp EXCEPT !.op = "__init__", !.pid = pid, !.raised = r.raised,
                                  !.arg = [tm |-> tmArg, cm |-> cmArg]]
    /\ UNCHANGED <<priors, cache, nobj, returned, recency, ncalls, now, threads,
                   particles, created>>

\* predictor.predict(prior, timestamp) run to completion by one caller
Predict(pid, p, ts) ==
    /\ predictors[pid] # None
    /\ \E r \in {lru_cache_wrapper(cache, nobj, predictors[pid][1], priors[p],
                                   cache_key(pid, p, ts), ts)} :
          /\ cache' = r.cache
          /\ nobj' = r.nobj
          /\ last' = [NoOp EXCEPT !.op = "predict", !.pid = pid,
                                  !.key = Some(cache_key(pid, p, ts)),
                                  !.raised = r.raised, !.result = r.result,
                                  !.hit = r.hit, !.queried = ~r.hit]
          /\ returned' = (cache_key(pid, p, ts) :> [raised |-> r.raised, result |-> r.result])
                         @@ returned
    /\ recency' = recency_touch(recency, cache_key(pid, p, ts))
    /\ UNCHANGED <<predictors, priors, nsynth, threads, particles, created>>

\* ------------------------------------------------------------------------
\* predict called from several threads: the cache lookup and the cache
\* update each run under the cache's lock, the body runs outside it
\* ------------------------------------------------------------------------
T_Lookup(t, pid, p, ts) ==
    /\ threads[t].pc = "idle"
    /\ predictors[pid] # None
    /\ \E i \in {cache_find(cache, cache_key(pid, p, ts))} :
          IF i > 0
          THEN /\ cache' = cache_touch(cache, i)
               /\ threads' = [threads EXCEPT ![t] =
                     [pc |-> "return", args |-> <<pid, p, ts>>, raised |-> None,
                      result |-> Some(cache[i].result), hit |-> TRUE]]
          ELSE /\ cache' = cache
               /\ threads' = [threads EXCEPT ![t] =
                     [pc |-> "body", args |-> <<pid, p, ts>>, raised |-> None,
                      result |-> None, hit |-> FALSE]]
    /\ UNCHANGED <<predictors, priors, nobj, nsynth, last, returned, recency, particles,
                   created>>

T_Body(t) ==
    /\ threads[t].pc = "body"
    /\ \E a \in {threads[t].args} :
       \E out \in {predict_body(predictors[a[1]][1], priors[a[2]], a[3])} :
          IF out.raised # None
          THEN /\ threads' = [threads EXCEPT ![t].pc = "return", ![t].raised = out.raised]
               /\ nobj' = nobj
          ELSE /\ threads' = [threads EXCEPT ![t].pc = "store", ![t].result =
                     Some(InformationStatePrediction(nobj, priors[a[2]], out.value[1]))]
               /\ nobj' = nobj + 1
    /\ UNCHANGED <<predictors, priors, cache, nsynth, last, returned, recency, ncalls, now,
                   particles, created>>

T_Store(t) ==
    /\ threads[t].pc = "store"
    /\ \E a \in {threads[t].args} :
          cache' = cache_store(cache, cache_key(a[1], a[2], a[3]), threads[t].result[1])
    /\ threads' = [threads EXCEPT ![t].pc = "return"]
    /\ UNCHANGED <<predictors, priors, nobj, nsynth, last, returned, recency, ncalls, now,
                   particles, created>>

T_Return(t) ==
    /\ threads[t].pc = "return"
    /\ \E a \in {threads[t].args} :
       \E key \in {cache_key(a[1], a[2], a[3])} :
          /\ last' = [NoOp EXCEPT !.op = "predict", !.pid = a[1], !.key = Some(key),
                                  !.raised = threads[t].raised,
                                  !.result = threads[t].result,
                                  !.hit = threads[t].hit, !.queried = ~threads[t].hit]
          /\ returned' = (key :> [raised |-> threads[t].raised,
                                  result |-> threads[t].result]) @@ returned
          /\ recency' = recency_touch(recency, key)
    /\ threads' = [threads EXCEPT ![t] = IdleThread]
    /\ UNCHANGED <<predictors, priors, cache, nobj, nsynth, ncalls, now, particles, created>>

\* ------------------------------------------------------------------------
\* Particle(state_vector, weight, parent) and
\* MultiModelParticle(state_vector, weight, dynamic_model, parent)
\* ------------------------------------------------------------------------
NewParticle(cls, sv, parent) ==
    /\ particles' = particle_init(particles, cls, sv, parent)
    /\ created' = Some([id |-> Len(particles) + 1, parent |-> parent,
                        grandparent |-> IF parent = None THEN None
                                        ELSE particles[parent[1]].parent])
    /\ UNCHANGED <<predictors, priors, cache, nobj, nsynth, last, returned, recency,
                   ncalls, now, threads>>

\* ------------------------------------------------------------------------
\* A caller that builds one predictor and predicts a bounded number of times
\* ------------------------------------------------------------------------
ControlArgs(tmArg) ==
    IF tmArg = None THEN {None, Some(cmPush(1))}
    ELSE {None, Some(cmPush(tmArg[1].ndim_state))}

NewPredictor ==
    \E tmArg \in {None} \cup {Some(tm) : tm \in TransitionModels} :
        \E cmArg \in ControlArgs(tmArg) :
            /\ Construct(1, tmArg, cmArg)

CallPredict ==
    \E p \in PriorIds : \E ts \in Timestamps :
        /\ ncalls < MaxCalls
        /\ ncalls' = ncalls + 1
        /\ now' = now
        /\ Predict(1, p, ts)

Next == NewPredictor \/ CallPredict

Spec == Init /\ [][Next]_vars

\* ------------------------------------------------------------------------
\* A caller that compares a predictor built without a control model with
\* one built with an explicit zero-effect control model
\* ------------------------------------------------------------------------
NewPlain == \E tm \in TransitionModels : Construct(1, Some(tm), None)

NewExplicit ==
    \E cm \in ZeroEffectModels(IF predictors[1] = None THEN 1
                               ELSE predictors[1][1].transition_model.ndim_state) :
        /\ predictors[1] # None
        /\ Construct(2, Some(predictors[1][1].transition_model), Some(cm))

CallPlain ==
    \E p \in PriorIds : \E ts \in Timestamps :
        /\ ncalls < MaxCalls
        /\ ncalls' = ncalls + 1
        /\ now' = now
        /\ Predict(1, p, ts)

CallExplicit ==
    \E p \in PriorIds : \E ts \in Timestamps :
        /\ ncalls < MaxCalls
        /\ cache_key(1, p, ts) \in DOMAIN returned
        /\ ncalls' = ncalls + 1
        /\ now' = now
        /\ Predict(2, p, ts)

NextNoControl == NewPlain \/ NewExplicit \/ CallPlain \/ CallExplicit

SpecNoControl == Init /\ [][NextNoControl]_vars

\* ------------------------------------------------------------------------
\* A tracker: one prior estimate, predicted to timestamp 0 first and then to
\* each next timestamp; at some point it goes back and predicts to timestamp 0
\* again (a bounded number of times) and stops advancing
\* ------------------------------------------------------------------------
TrackedPrior == PriorPool[3].oid

FailingPrior == PriorPool[4].oid

NewTracker == Construct(1, Some(tmScalar), None)

TrackFirst ==
    \E p \in {TrackedPrior, FailingPrior} :
        /\ now = 0
        /\ ncalls = 0
        /\ now' = now
        /\ ncalls' = ncalls
        /\ Predict(1, p, Some(0))

TrackNext ==
    /\ cache_key(1, TrackedPrior, Some(0)) \in DOMAIN returned
    /\ ncalls = 0
    /\ now < MaxStamp
    /\ now' = now + 1
    /\ ncalls' = ncalls
    /\ Predict(1, TrackedPrior, Some(now + 1))

TrackAgain ==
    /\ now > 0
    /\ ncalls < MaxCalls
    /\ now' = now
    /\ ncalls' = ncalls + 1
    /\ Predict(1, TrackedPrior, Some(0))

NextCache == NewTracker \/ TrackFirst \/ TrackAgain \/ TrackNext

SpecCache == Init /\ [][NextCache]_vars

\* ------------------------------------------------------------------------
\* Two threads predicting on one predictor
\* ------------------------------------------------------------------------
NewShared == \E tm \in {tmCV, tmScalar} : Construct(1, Some(tm), None)

ThreadPriors == {PriorPool[1].oid, PriorPool[3].oid, PriorPool[4].oid}

ThreadCall ==
    \E t \in Threads : \E p \in ThreadPriors : \E ts \in Timestamps :
        /\ ncalls < MaxCalls
        /\ ncalls' = ncalls + 1
        /\ now' = now
        /\ T_Lookup(t, 1, p, ts)

ThreadBody == \E t \in Threads : T_Body(t)

ThreadStore == \E t \in Threads : T_Store(t)

ThreadReturn == \E t \in Threads : T_Return(t)

NextThreads == NewShared \/ ThreadCall \/ ThreadBody \/ ThreadStore \/ ThreadReturn

SpecThreads == Init /\ [][NextThreads]_vars

\* ------------------------------------------------------------------------
\* A caller that constructs particles, each with any earlier particle (or
\* none) as its parent
\* ------------------------------------------------------------------------
ParentArgs == {None} \cup {Some(i) : i \in 1..Len(particles)}

MakeParticle ==
    \E sv \in {"list", "StateVector"} : \E parent \in ParentArgs :
        /\ Len(particles) < MaxParticles
        /\ NewParticle("Particle", sv, parent)

MakeMultiModelParticle ==
    \E sv \in {"list", "StateVector"} : \E parent \in ParentArgs :
        /\ Len(particles) < MaxParticles
        /\ NewParticle("MultiModelParticle", sv, parent)

NextParticle == MakeParticle \/ MakeMultiModelParticle

SpecParticle == Init /\ [][NextParticle]_vars

\* ------------------------------------------------------------------------
\* The most recent call, and the recursion as the specification writes it
\* ------------------------------------------------------------------------
LastCall == last.op = "predict"

LastPred == predictors[last.pid][1]

LastPrior == priors[last.key[1][2]]

LastTimestamp == last.key[1][3]

LastF == tm_matrix(LastPred.transition_model, predict_over_interval(LastPrior, LastTimestamp))

LastQ == tm_covar(LastPred.transition_model, predict_over_interval(LastPrior, LastTimestamp))

LastY == IF LastPrior.kind \in InformationKinds THEN LastPrior.info_matrix[1]
         ELSE LastPrior.covar[1]

LastFits == Rows(LastPrior.state_vector) = LastPred.transition_model.ndim_state

SpecM(F, Y) == MatMul(MatMul(Inverse(T(F)), Y), Inverse(F))

SpecSigma(F, Q, Y) ==
    MatAdd(MatMul(MatMul(np_identity(Rows(F)), SpecM(F, Y)), np_identity(Rows(F))), Inverse(Q))

SpecOmega(F, Q, Y) ==
    MatMul(MatMul(SpecM(F, Y), np_identity(Rows(F))), Inverse(SpecSigma(F, Q, Y)))

SpecInfoMatrix(F, Q, Y) ==
    MatSub(SpecM(F, Y),
           MatMul(MatMul(SpecOmega(F, Q, Y), SpecSigma(F, Q, Y)), T(SpecOmega(F, Q, Y))))

SpecInfoVector(F, Q, Y, y, control) ==
    MatAdd(MatMul(MatMul(MatSub(np_identity(Rows(F)),
                                MatMul(SpecOmega(F, Q, Y), T(np_identity(Rows(F))))),
                         Inverse(T(F))), y),
           control)

\* F, Q or Sigma is not invertible (Sigma exists once F and Q are invertible
\* and the prior fits the model)
NotInvertible(F, Q, Y) ==
    \/ Singular(F)
    \/ Singular(Q)
    \/ /\ CanMatMul(F, Y)
       /\ Singular(SpecSigma(F, Q, Y))

\* C1: every estimate predict returns has the information vector
\* (I - Omega G^T) F^-T y + Y u, with I the identity matrix.
C1_InfoVectorUsesIdentity ==
    (LastCall /\ last.result # None) =>
        last.result[1].state_vector =
            SpecInfoVector(LastF, LastQ, LastY, LastPrior.state_vector,
                           MatMul(LastY, cm_control_input(LastPred.control_model)))

\* C2: every estimate predict returns has the information matrix
\* M - Omega Sigma Omega^T, with Y the prior's info_matrix for an
\* information-form prior and the prior's covar otherwise.
C2_InfoMatrixRecursion ==
    (LastCall /\ last.result # None) =>
        last.result[1].info_matrix = Some(SpecInfoMatrix(LastF, LastQ, LastY))

C2_Witness ==
    /\ LastCall
    /\ last.result # None
    /\ LastPrior.kind = "GaussianState"
    /\ LastPrior.covar[1] # Inverse(LastPrior.covar[1])

\* C4 as stated: a predict call, returning or failing, changes no prior
\* estimate and no model, and the estimate it returns is an object this call
\* created, sharing no buffer with any prior.
C4_PredictReturnsNewObject ==
    [][(last'.op = "predict" /\ ncalls' # ncalls) =>
          /\ priors' = priors
          /\ predictors' = predictors
          /\ last'.result # None =>
                /\ last'.result[1].oid = nobj
                /\ nobj' = nobj + 1
                /\ \A q \in PriorIds : last'.result[1].storage \cap priors[q].storage = {}]_vars

\* C4 amended: a predict call, returning or failing, changes no prior estimate
\* and no model; the estimate it returns is none of the priors and shares no
\* buffer with any of them; it is an object this call created unless the call
\* is answered from the cache, and then it is the object the cache holds for
\* the key.
C4_PredictFrame ==
    [][(last'.op = "predict" /\ ncalls' # ncalls) =>
          /\ priors' = priors
          /\ predictors' = predictors
          /\ last'.result # None =>
                /\ last'.result[1].oid \notin PriorIds
                /\ \A q \in PriorIds : last'.result[1].storage \cap priors[q].storage = {}
                /\ IF last'.hit
                   THEN /\ nobj' = nobj
                        /\ \E i \in 1..Len(cache) :
                              /\ cache[i].key = last'.key[1]
                              /\ cache[i].result = last'.result[1]
                   ELSE /\ last'.result[1].oid = nobj
                        /\ nobj' = nobj + 1]_vars

C4_Witness ==
    /\ LastCall
    /\ last.result # None
    /\ last.hit
    /\ ncalls = MaxCalls

C7_DimensionGuard ==
    (LastCall /\ ~LastFits) =>
        /\ last.raised = Some("ValueError")
        /\ last.result = None
        /\ cache_find(cache, last.key[1]) = 0

C7_Witness ==
    /\ LastCall
    /\ Rows(LastPrior.state_vector) > LastPred.transition_model.ndim_state
    /\ last.raised = Some("ValueError")
    /\ \E k \in DOMAIN returned :
          /\ Rows(priors[k[2]].state_vector) < LastPred.transition_model.ndim_state
          /\ returned[k].raised = Some("ValueError")

KeyAge(key) == Len(recency) - (CHOOSE i \in 1..Len(recency) : recency[i] = key)

\* C3 as stated: a call with a key whose previous call returned an estimate
\* returns that same estimate without running the body again, however many
\* calls with other keys came in between.
C3_RepeatReturnsFirst ==
    [][(/\ last'.op = "predict"
        /\ last'.key[1] \in DOMAIN returned
        /\ returned[last'.key[1]].result # None) =>
          /\ last'.result = returned[last'.key[1]].result
          /\ ~last'.queried]_vars

\* C3 amended: the same, provided fewer than maxsize (128) other keys were
\* passed to predict since the previous call with the key.
C3_RepeatWithinCacheSize ==
    [][(/\ last'.op = "predict"
        /\ last'.key[1] \in DOMAIN returned
        /\ returned[last'.key[1]].result # None
        /\ KeyAge(last'.key[1]) < maxsize) =>
          /\ last'.result = returned[last'.key[1]].result
          /\ last'.hit
          /\ ~last'.queried]_vars

C3_Witness ==
    /\ LastCall
    /\ last.hit
    /\ last.key[1] = cache_key(1, TrackedPrior, Some(0))
    /\ now = maxsize - 1

\* the outcomes of the two predictors for one prior and timestamp agree
SameOutcome(a, b) ==
    /\ a.raised = b.raised
    /\ (a.result = None) = (b.result = None)
    /\ a.result # None =>
          /\ a.result[1].state_vector = b.result[1].state_vector
          /\ a.result[1].info_matrix = b.result[1].info_matrix
          /\ a.result[1].timestamp = b.result[1].timestamp

\* C5: for every prior and timestamp, the predictor built without a control
\* model and the predictor built with an explicit zero-effect control model
\* of the same dimension give the same info_vector, info_matrix and
\* timestamp (or fail alike); the control model the first one holds is all
\* zeros.
C5_NoControlIsZeroControl ==
    /\ predictors[1] # None =>
          predictors[1][1].control_model =
              LinearControlModel(predictors[1][1].transition_model.ndim_state, <<>>,
                  np_zeros(predictors[1][1].transition_model.ndim_state, 1),
                  np_zeros(predictors[1][1].transition_model.ndim_state,
                           predictors[1][1].transition_model.ndim_state),
                  np_zeros(predictors[1][1].transition_model.ndim_state,
                           predictors[1][1].transition_model.ndim_state))
    /\ \A p \in PriorIds : \A ts \in Timestamps :
          (/\ cache_key(1, p, ts) \in DOMAIN returned
           /\ cache_key(2, p, ts) \in DOMAIN returned) =>
              SameOutcome(returned[cache_key(1, p, ts)], returned[cache_key(2, p, ts)])

C5_Witness ==
    /\ predictors[2] # None
    /\ cm_matrix(predictors[2][1].control_model) # cm_matrix(predictors[1][1].control_model)
    /\ \E p \in PriorIds : \E ts \in Timestamps :
          /\ cache_key(1, p, ts) \in DOMAIN returned
          /\ cache_key(2, p, ts) \in DOMAIN returned
          /\ returned[cache_key(2, p, ts)].result # None
          /\ returned[cache_key(2, p, ts)].result[1].oid #
                 returned[cache_key(1, p, ts)].result[1].oid

\* what predict gives for the arguments a on its own
AloneOutcome(a) == predict_body(predictors[a[1]][1], PriorPool[a[2]], a[3])

IsOutcomeOf(obj, out) ==
    /\ out.raised = None
    /\ obj.kind = "InformationStatePrediction"
    /\ obj.state_vector = out.value[1].info_vector
    /\ obj.info_matrix = Some(out.value[1].info_matrix)
    /\ obj.timestamp = out.value[1].timestamp

CacheCoherent ==
    /\ Len(cache) <= maxsize
    /\ \A i, j \in 1..Len(cache) : cache[i].key = cache[j].key => i = j
    /\ \A i \in 1..Len(cache) : IsOutcomeOf(cache[i].result, AloneOutcome(cache[i].key))

ThreadEndsAs(th, out) ==
    IF th.result = None
    THEN th.raised # None /\ th.raised = out.raised
    ELSE th.raised = None /\ IsOutcomeOf(th.result[1], out)

ThreadsCoherent ==
    \A t \in Threads :
        threads[t].pc = "return" => ThreadEndsAs(threads[t], AloneOutcome(threads[t].args))

\* C9: with two threads calling predict on one predictor, in every
\* interleaving each call ends with the outcome predict gives for its
\* arguments on its own, the priors and the models are as they were made, and
\* the cache holds at most one entry per key, each the outcome for its key.
C9_ThreadSafe ==
    /\ ThreadsCoherent
    /\ CacheCoherent
    /\ priors = PriorPool
    /\ predictors[1] # None =>
          /\ predictors[1][1].transition_model \in TransitionModels
          /\ predictors[1][1].control_model =
                 zero_effect_control_model(predictors[1][1].transition_model.ndim_state)

C9_Witness ==
    /\ threads[1].pc = "return"
    /\ threads[2].pc = "return"
    /\ threads[1].args = threads[2].args
    /\ ~threads[1].hit
    /\ ~threads[2].hit
    /\ threads[1].result # None
    /\ threads[2].result # None
    /\ threads[1].result[1].oid # threads[2].result[1].oid
    /\ Len(cache) = 1

ChainAtMostOne ==
    \A i \in 1..Len(particles) :
        \/ particles[i].parent = None
        \/ particles[particles[i].parent[1]].parent = None

\* C10: constructing a Particle or MultiModelParticle with a parent sets the
\* parent's own parent to None and links the new particle to it, so that
\* every particle has no parent or a parent without a parent; constructing
\* one without a parent leaves every other particle as it was.
C10_ParentChain ==
    [][/\ ChainAtMostOne'
       /\ Len(particles') = Len(particles) + 1
       /\ created'[1].id = Len(particles')
       /\ particles'[Len(particles')].parent = created'[1].parent
       /\ IF created'[1].parent # None
          THEN /\ particles'[created'[1].parent[1]].parent = None
               /\ \A i \in 1..Len(particles) :
                     i # created'[1].parent[1] => particles'[i] = particles[i]
          ELSE SubSeq(particles', 1, Len(particles)) = particles]_vars

C10_Witness ==
    /\ created # None
    /\ created[1].grandparent # None
    /\ particles[created[1].id].cls = "MultiModelParticle"
    /\ particles[created[1].parent[1]].parent = None
====
